---- MODULE Spec2Model ----
(***************************************************************************)
(* Model of djchat/server/views.py (ServerListViewSet.list) and            *)
(* djchat/server/serializer.py (ServerSerializer).                         *)
(*                                                                         *)
(* Query-string values are sequences of one-character strings, so that     *)
(* int(...) and the f-string messages are computed, not assumed.  A        *)
(* QuerySet is a lazy description of a query (its where-clauses, its       *)
(* annotation, its slice) plus a result cache; it is run against the store *)
(* only by exists() and by the serializer's iteration.                     *)
(***************************************************************************)
EXTENDS Integers, Sequences, FiniteSets, TLC

VARIABLES servers, cache, request, response, queryset

vars == <<servers, cache, request, response, queryset>>

\* ------------------------------------------------------------------ bounds

\* Number of servers the store may hold.
MaxServers == 2

\* ------------------------------------------------------------ plain values

Anonymous == "anonymous"
Callers == {Anonymous, "alice"}
Categories == {"Games", "Music"}
MemberSets == {{}, {"bob"}, {"alice", "bob"}}

\* request.query_params.get(name): None when the parameter is absent.
None == [present |-> FALSE, val |-> <<>>]
Str(s) == [present |-> TRUE, val |-> s]

\* Python truthiness of an optional string: None and "" are falsy.
Truthy(p) == p.present /\ p.val # <<>>

\* ----------------------------------------------------------- int() and str()

DigitChars == <<"0", "1", "2", "3", "4", "5", "6", "7", "8", "9">>
IsDigit(c) == \E d \in 1..10 : DigitChars[d] = c
DigitVal(c) == (CHOOSE d \in 1..10 : DigitChars[d] = c) - 1

RECURSIVE LStrip(_)
LStrip(s) == IF s # <<>> /\ Head(s) = " " THEN LStrip(Tail(s)) ELSE s

RECURSIVE RStrip(_)
RStrip(s) ==
  IF s # <<>> /\ s[Len(s)] = " " THEN RStrip(SubSeq(s, 1, Len(s) - 1)) ELSE s

\* Digits, with single underscores allowed between two digits.
ValidDigits(d) ==
  /\ d # <<>>
  /\ \A i \in 1..Len(d) :
       \/ IsDigit(d[i])
       \/ /\ d[i] = "_"
          /\ i > 1 /\ i < Len(d)
          /\ IsDigit(d[i - 1]) /\ IsDigit(d[i + 1])

RECURSIVE DigitsValue(_, _)
DigitsValue(d, acc) ==
  IF d = <<>> THEN acc
  ELSE IF Head(d) = "_" THEN DigitsValue(Tail(d), acc)
  ELSE DigitsValue(Tail(d), 10 * acc + DigitVal(Head(d)))

\* int(s) of Python for a str: ok = FALSE stands for ValueError.
ParseInt(s) ==
  LET t == RStrip(LStrip(s))
      signed == t # <<>> /\ Head(t) \in {"+", "-"}
      d == IF signed THEN Tail(t) ELSE t
  IN IF ValidDigits(d)
     THEN [ok |-> TRUE,
           val |-> IF signed /\ Head(t) = "-"
                   THEN 0 - DigitsValue(d, 0) ELSE DigitsValue(d, 0)]
     ELSE [ok |-> FALSE, val |-> 0]

RECURSIVE NatToStr(_)
NatToStr(n) ==
  IF n < 10 THEN <<DigitChars[n + 1]>>
  ELSE NatToStr(n \div 10) \o <<DigitChars[(n % 10) + 1]>>

\* The text an f-string puts for an int.
IntToStr(n) == IF n < 0 THEN <<"-">> \o NatToStr(0 - n) ELSE NatToStr(n)

\* ------------------------------------------------------------- the store

\* A Server row: its primary key, its category's name, its members.
Server(id, category, member) ==
  [id |-> id, category |-> category, member |-> member]

\* ------------------------------------------------------------- QuerySet

NoCache == [filled |-> FALSE, rows |-> <<>>]

\* ServerListViewSet.queryset: one object for the whole process; c is its
\* result cache.
ClassQueryset(c) ==
  [where |-> <<>>, annotate |-> FALSE, sliced |-> FALSE, stop |-> 0,
   shared |-> TRUE, result_cache |-> c]

\* Filter with a fault: the new condition replaces the earlier ones.
FilterReplacing(qs, field, value) ==
  [qs EXCEPT !.where = <<[field |-> field, value |-> value]>>,
             !.shared = FALSE, !.result_cache = NoCache]

\* qs.filter(field=value): a clone with one more where-clause and no cache.
Filter(qs, field, value) ==
  [qs EXCEPT !.where = Append(qs.where, [field |-> field, value |-> value]),
             !.shared = FALSE, !.result_cache = NoCache]

\* qs.annotate(num_members=Count("member")): a clone, no cache.
Annotate(qs) ==
  [qs EXCEPT !.annotate = TRUE, !.shared = FALSE, !.result_cache = NoCache]

\* Matches with a fault: the category clause is not applied.
MatchesAnyCategory(s, where) ==
  \A i \in 1..Len(where) :
    CASE where[i].field = "category__name" -> TRUE
      [] where[i].field = "member" -> where[i].value \in s.member
      [] where[i].field = "id" -> s.id = where[i].value

\* The WHERE of the query: every clause holds of the row.
Matches(s, where) ==
  \A i \in 1..Len(where) :
    CASE where[i].field = "category__name" -> s.category = where[i].value
      [] where[i].field = "member" -> where[i].value \in s.member
      [] where[i].field = "id" -> s.id = where[i].value

\* The rows of the member join that the WHERE leaves for server s: Count
\* counts these, so a filter on member placed before annotate narrows it.
Joined(s, where) ==
  {m \in s.member :
     \A i \in 1..Len(where) : where[i].field = "member" => m = where[i].value}

Min(a, b) == IF a < b THEN a ELSE b

\* Take with a fault: one entry too many.
TakeOneMore(rows, n) == SubSeq(rows, 1, Min(n + 1, Len(rows)))

\* rows[:n] for n >= 0.
Take(rows, n) == SubSeq(rows, 1, Min(n, Len(rows)))

\* The query run against the store, in the store's order.
Execute(qs, store) ==
  LET hit == SelectSeq(store, LAMBDA s : Matches(s, qs.where))
      rows == [i \in 1..Len(hit) |->
                 IF qs.annotate
                 THEN hit[i] @@ [num_members |->
                                   Cardinality(Joined(hit[i], qs.where))]
                 ELSE hit[i]]
  IN IF qs.sliced THEN Take(rows, qs.stop) ELSE rows

\* Iterating a QuerySet: its cached rows when it has them, else the query.
Evaluate(qs, store) ==
  IF qs.result_cache.filled THEN qs.result_cache.rows ELSE Execute(qs, store)

\* Exists with a fault: the id is looked up in the whole store, not in the
\* narrowed queryset.
ExistsInStore(qs, store) ==
  \E i \in 1..Len(store) :
    \A j \in 1..Len(qs.where) :
      qs.where[j].field = "id" => store[i].id = qs.where[j].value

\* Exists with a fault: the test is of the queryset object, never empty.
ExistsNotNone(qs, store) == TRUE

\* qs.exists()
Exists(qs, store) == Evaluate(qs, store) # <<>>

\* qs[:n] for n >= 0: a slice of the cached list when the rows are cached,
\* else a clone with a LIMIT.
Slice(qs, n) ==
  IF qs.result_cache.filled
  THEN [qs EXCEPT !.shared = FALSE,
                  !.result_cache = [filled |-> TRUE,
                                    rows |-> Take(qs.result_cache.rows, n)]]
  ELSE [qs EXCEPT !.sliced = TRUE, !.stop = n, !.shared = FALSE]

\* ----------------------------------------------------------- serializer

\* Meta.fields = "__all__": the fields of the Server model.
ModelFields == {"id", "category", "member"}

\* ServerSerializer(...).data for one row.
ToRepresentation(row) == [f \in ModelFields |-> row[f]]

\* ServerSerializer(rows, many=True, context=...).data
SerializerData(rows, context) ==
  [i \in 1..Len(rows) |-> ToRepresentation(rows[i])]

\* ------------------------------------------------------------- the view

TrueStr == <<"t", "r", "u", "e">>

IsAuthenticated(user) == user # Anonymous

Ok(data) == [status |-> "ok", detail |-> <<>>, data |-> data]
AuthenticationFailed ==
  [status |-> "AuthenticationFailed", detail |-> <<>>, data |-> <<>>]
ValidationError(detail) ==
  [status |-> "ValidationError", detail |-> detail, data |-> <<>>]
\* An exception the view does not catch.
Unhandled == [status |-> "Unhandled", detail |-> <<>>, data |-> <<>>]

\* MustBeInteger with a fault: the message leaves the value out.
MustBeIntegerNoValue(by_server_id) == <<"Server id must be an integer.">>

\* f"Server id {by_server_id} must be an integer."
MustBeInteger(by_server_id) ==
  <<"Server id ">> \o by_server_id \o <<" must be an integer.">>
\* f"Server with id {server_id_int} not found."
NotFound(server_id_int) ==
  <<"Server with id ">> \o IntToStr(server_id_int) \o <<" not found.">>

\* AuthRequired with a fault: by_user is left out of the test.
AuthRequiredIdOnly(by_user, by_server_id, user) ==
  Truthy(by_server_id) /\ ~IsAuthenticated(user)

\* AuthRequired with a fault: by_server_id is left out of the test.
AuthRequiredUserOnly(by_user, by_server_id, user) ==
  by_user /\ ~IsAuthenticated(user)

\* (by_user or by_server_id) and not request.user.is_authenticated
AuthRequired(by_user, by_server_id, user) ==
  (by_user \/ Truthy(by_server_id)) /\ ~IsAuthenticated(user)

Outcome(resp, qs, c) == [response |-> resp, queryset |-> qs, cache |-> c]

\* The tail of list: annotate, slice, serialize.
Finish(req, qs, store, c) ==
  LET with_num_members == req.with_num_members = Str(TrueStr)
      qty == req.qty
      q4 == IF with_num_members THEN Annotate(qs) ELSE qs
      n == ParseInt(qty.val)
  IN IF Truthy(qty) /\ (~n.ok \/ n.val < 0)
     THEN Outcome(Unhandled, q4, c)
     ELSE LET q5 == IF Truthy(qty) THEN Slice(q4, n.val) ELSE q4
              rows == Evaluate(q5, store)
          IN Outcome(Ok(SerializerData(rows, with_num_members)), q5,
                     IF q5.shared THEN [filled |-> TRUE, rows |-> rows]
                     ELSE c)

\* ServerListViewSet.list: req is the request, store the Server table at the
\* time of the call, c the class-level queryset's result cache.
list(req, store, c) ==
  LET category == req.category
      by_user == req.by_user = Str(TrueStr)
      by_server_id == req.by_server_id
      q0 == ClassQueryset(c)
      q1 == IF Truthy(category)
            THEN Filter(q0, "category__name", category.val) ELSE q0
  IN IF AuthRequired(by_user, by_server_id, req.user)
     THEN Outcome(AuthenticationFailed, q1, c)
     ELSE
       LET q2 == IF by_user THEN Filter(q1, "member", req.user) ELSE q1
           server_id_int == ParseInt(by_server_id.val)
           q3 == Filter(q2, "id", server_id_int.val)
       IN IF ~Truthy(by_server_id) THEN Finish(req, q2, store, c)
          ELSE IF ~server_id_int.ok
          THEN Outcome(ValidationError(MustBeInteger(by_server_id.val)), q2, c)
          ELSE IF ~Exists(q3, store)
          THEN Outcome(ValidationError(NotFound(server_id_int.val)), q3, c)
          ELSE Finish(req, q3, store, c)

\* ----------------------------------------------------------- the system

CategoryValues == {None, Str(<<>>), Str(<<"G", "a", "m", "e", "s">>)}
ByUserValues == {None, Str(TrueStr), Str(<<"f", "a", "l", "s", "e">>)}
ByServerIdValues == {None, Str(<<>>), Str(<<"1">>), Str(<<"0", "2">>), Str(<<"x">>)}
WithNumMembersValues == {None, Str(TrueStr)}
QtyValues == {None, Str(<<>>), Str(<<"1">>), Str(<<"2">>), Str(<<"x">>), Str(<<"-", "1">>)}

Requests ==
  [user : Callers, category : CategoryValues, by_user : ByUserValues,
   by_server_id : ByServerIdValues, with_num_members : WithNumMembersValues,
   qty : QtyValues]

\* No request is being answered.
Idle == [user |-> Anonymous, category |-> None, by_user |-> None,
         by_server_id |-> None, with_num_members |-> None, qty |-> None,
         idle |-> TRUE]
NoResponse == [status |-> "none", detail |-> <<>>, data |-> <<>>]

CategoryName(c) ==
  IF c = "Games" THEN <<"G", "a", "m", "e", "s">> ELSE <<"M", "u", "s", "i", "c">>

Init ==
  /\ servers = <<>>
  /\ cache = NoCache
  /\ request = Idle
  /\ response = NoResponse
  /\ queryset = ClassQueryset(NoCache)

\* The store gains a server (the table's next primary key).
CreateServer ==
  /\ request = Idle
  /\ Len(servers) < MaxServers
  /\ \E c \in Categories, m \in MemberSets :
       servers' = Append(servers, Server(Len(servers) + 1, CategoryName(c), m))
  /\ UNCHANGED <<cache, request, response, queryset>>

\* A GET of the endpoint, handled to its response.
List ==
  /\ request = Idle
  /\ \E req \in Requests :
       LET out == list(req, servers, cache)
       IN /\ request' = req
          /\ response' = out.response
          /\ queryset' = out.queryset
          /\ cache' = out.cache
  /\ UNCHANGED servers

\* The response is sent; the view instance is dropped.
Respond ==
  /\ request # Idle
  /\ request' = Idle
  /\ response' = NoResponse
  /\ queryset' = ClassQueryset(cache)
  /\ UNCHANGED <<servers, cache>>

Next == CreateServer \/ List \/ Respond

Spec == Init /\ [][Next]_vars

\* ------------------------------------------------------------- claims

Answered == request # Idle
ByUser == request.by_user = Str(TrueStr)
WithNumMembers == request.with_num_members = Str(TrueStr)
Games == <<"G", "a", "m", "e", "s">>

\* The ids of a list of servers or of response items, in order.
Ids(rows) == [i \in 1..Len(rows) |-> rows[i].id]

\* The first n entries of a list, written out.
FirstN(rows, n) == SubSeq(rows, 1, IF n < Len(rows) THEN n ELSE Len(rows))

\* C1: a call with by_user = "true" by an unauthenticated caller ends in an
\* authentication failure, whatever category, by_server_id,
\* with_num_members and qty are.
C1_UnauthenticatedByUserFails ==
  (Answered /\ ByUser /\ request.user = Anonymous)
    => response = AuthenticationFailed

C1_Witness ==
  /\ Answered /\ ByUser /\ request.user = Anonymous
  /\ request.by_server_id = Str(<<"x">>)
  /\ request.qty = Str(<<"x">>)
  /\ response.status = "AuthenticationFailed"

\* C2 as stated: whenever by_user or by_server_id is present in the query
\* string and the caller is unauthenticated, the call fails with an
\* authentication error and no filter has been applied to the queryset.
C2_PresentParameterFailsBeforeAnyFilter ==
  (Answered /\ request.user = Anonymous
     /\ (request.by_user.present \/ request.by_server_id.present))
    => (response = AuthenticationFailed /\ Len(queryset.where) = 0)

\* C2 amended: whenever by_user is "true" or by_server_id is a non-empty
\* string and the caller is unauthenticated, the call fails with an
\* authentication error, no server data is returned, and neither the
\* membership nor the id filter has been applied (only the category filter
\* may have been).
C2_EffectiveParameterFailsBeforeScopedFilters ==
  (Answered /\ request.user = Anonymous
     /\ (ByUser \/ Truthy(request.by_server_id)))
    => /\ response = AuthenticationFailed
       /\ response.data = <<>>
       /\ \A i \in 1..Len(queryset.where) :
            queryset.where[i].field = "category__name"

C2_Witness ==
  /\ Answered /\ request.user = Anonymous
  /\ ~request.by_user.present
  /\ request.by_server_id = Str(<<"1">>)
  /\ request.category = Str(Games)
  /\ Len(servers) > 0 /\ servers[1].category = Games
  /\ response.status = "AuthenticationFailed"
  /\ Len(queryset.where) = 1

\* C3 as stated: a by_server_id that does not parse as an integer gives a
\* validation failure naming the value, for every caller.
C3_NonIntegerIdIsValidationFailure ==
  (Answered /\ request.by_server_id.present
     /\ ~ParseInt(request.by_server_id.val).ok)
    => /\ response.status = "ValidationError"
       /\ response.detail =
            <<"Server id ">> \o request.by_server_id.val
              \o <<" must be an integer.">>

\* C3 amended: for an authenticated caller, a non-empty by_server_id that
\* does not parse as an integer gives a validation failure naming the value.
C3_AuthenticatedNonIntegerIdIsValidationFailure ==
  (Answered /\ IsAuthenticated(request.user)
     /\ Truthy(request.by_server_id)
     /\ ~ParseInt(request.by_server_id.val).ok)
    => /\ response.status = "ValidationError"
       /\ response.detail =
            <<"Server id ">> \o request.by_server_id.val
              \o <<" must be an integer.">>

C3_Witness ==
  /\ Answered /\ IsAuthenticated(request.user)
  /\ request.by_server_id = Str(<<"x">>)
  /\ ByUser /\ request.qty = Str(<<"x">>)
  /\ response.detail = <<"Server id ", "x", " must be an integer.">>

\* No server of the store has this id.
NoServerWithId(id) == \A i \in 1..Len(servers) : servers[i].id # id

\* C4 as stated: a by_server_id that parses to an id no server has gives the
\* not-found validation failure, for every caller.
C4_UnknownIdIsNotFound ==
  (Answered /\ request.by_server_id.present
     /\ ParseInt(request.by_server_id.val).ok
     /\ NoServerWithId(ParseInt(request.by_server_id.val).val))
    => /\ response.status = "ValidationError"
       /\ response.detail =
            <<"Server with id ">>
              \o IntToStr(ParseInt(request.by_server_id.val).val)
              \o <<" not found.">>

\* C4 amended: for an authenticated caller, a by_server_id that parses to an
\* id no server has gives the not-found validation failure.
C4_AuthenticatedUnknownIdIsNotFound ==
  (Answered /\ IsAuthenticated(request.user)
     /\ request.by_server_id.present
     /\ ParseInt(request.by_server_id.val).ok
     /\ NoServerWithId(ParseInt(request.by_server_id.val).val))
    => /\ response.status = "ValidationError"
       /\ response.detail =
            <<"Server with id ">>
              \o IntToStr(ParseInt(request.by_server_id.val).val)
              \o <<" not found.">>

C4_Witness ==
  /\ Answered /\ IsAuthenticated(request.user)
  /\ request.by_server_id = Str(<<"0", "2">>)
  /\ Len(servers) = 1
  /\ response.detail = <<"Server with id ", "2", " not found.">>

\* C5: the response to a request is determined by the request, its caller
\* and the store at the time of the request alone; no earlier request
\* changes it.
C5_ResponseIndependentOfEarlierRequests ==
  Answered => response = list(request, servers, NoCache).response

\* The members of the server with this id, in the store.
MembersOf(id) == (CHOOSE s \in {servers[i] : i \in 1..Len(servers)} : s.id = id).member

\* C6: with with_num_members = "true", every item of a successful response
\* has a num_members field equal to the number of members of that server.
C6_ItemsCarryMemberCount ==
  (Answered /\ WithNumMembers /\ response.status = "ok")
    => \A i \in 1..Len(response.data) :
         /\ "num_members" \in DOMAIN response.data[i]
         /\ response.data[i].num_members =
              Cardinality(MembersOf(response.data[i].id))

\* C7: with a non-empty category c and no other filter in effect, a
\* successful response holds exactly the servers whose category name is c.
C7_CategoryFilterExact ==
  (Answered /\ response.status = "ok"
     /\ Truthy(request.category)
     /\ ~ByUser /\ ~Truthy(request.by_server_id) /\ ~Truthy(request.qty))
    => Ids(response.data) =
         Ids(SelectSeq(servers, LAMBDA s : s.category = request.category.val))

C7_Witness ==
  /\ Answered /\ response.status = "ok"
  /\ request.category = Str(Games)
  /\ ~ByUser /\ ~Truthy(request.by_server_id) /\ ~Truthy(request.qty)
  /\ Len(servers) = 2 /\ Len(response.data) = 1
  /\ response.data[1].id = 2 /\ response.data[1].category = Games

\* C8: a successful response to a request with qty = N is the first N
\* entries, in order, of what the same request returns without qty.
C8_QtyIsPrefix ==
  (Answered /\ response.status = "ok" /\ Truthy(request.qty))
    => response.data =
         FirstN(list([request EXCEPT !.qty = None], servers, cache).response.data,
                ParseInt(request.qty.val).val)

C8_Witness ==
  /\ Answered /\ response.status = "ok"
  /\ request.qty = Str(<<"1">>)
  /\ Len(response.data) = 1
  /\ Len(list([request EXCEPT !.qty = None], servers, cache).response.data) = 2

\* The servers of the store that have the caller as a member and, when a
\* category is asked for, that category name.
MemberServers ==
  SelectSeq(servers,
            LAMBDA s : /\ request.user \in s.member
                       /\ Truthy(request.category)
                            => s.category = request.category.val)

\* C9: for an authenticated caller with by_user = "true" (and no
\* by_server_id), a successful response holds exactly the servers the
\* caller is a member of, narrowed by category when given, cut to the first
\* qty when given.
C9_ByUserIntersects ==
  (Answered /\ response.status = "ok" /\ IsAuthenticated(request.user)
     /\ ByUser /\ ~Truthy(request.by_server_id))
    => Ids(response.data) =
         Ids(IF Truthy(request.qty)
             THEN FirstN(MemberServers, ParseInt(request.qty.val).val)
             ELSE MemberServers)

C9_Witness ==
  /\ Answered /\ response.status = "ok" /\ IsAuthenticated(request.user)
  /\ ByUser /\ ~Truthy(request.by_server_id)
  /\ request.category = Str(Games)
  /\ Len(servers) = 2
  /\ servers[1].category = Games /\ request.user \notin servers[1].member
  /\ servers[2].category = Games /\ request.user \in servers[2].member
  /\ Ids(response.data) = <<2>>

\* A server with this id passes the category and membership filters of the
\* request.
QualifyingServer(id) ==
  \E i \in 1..Len(servers) :
    /\ servers[i].id = id
    /\ Truthy(request.category) => servers[i].category = request.category.val
    /\ ByUser => request.user \in servers[i].member

\* C10: for an authenticated caller with an integer by_server_id the call
\* fails with the not-found error exactly when no server with that id passes
\* the category and membership filters; a success without qty holds exactly
\* the server with that id.
C10_ExistenceOnNarrowedQueryset ==
  (Answered /\ IsAuthenticated(request.user)
     /\ Truthy(request.by_server_id)
     /\ ParseInt(request.by_server_id.val).ok)
    => LET id == ParseInt(request.by_server_id.val).val
       IN /\ (response.status = "ValidationError") <=> ~QualifyingServer(id)
          /\ response.status = "ValidationError"
               => response.detail =
                    <<"Server with id ">> \o IntToStr(id) \o <<" not found.">>
          /\ (response.status = "ok" /\ ~Truthy(request.qty))
               => Ids(response.data) = <<id>>

C10_Witness ==
  /\ Answered /\ IsAuthenticated(request.user)
  /\ request.by_server_id = Str(<<"1">>)
  /\ request.category = Str(Games)
  /\ Len(servers) > 0 /\ servers[1].id = 1 /\ servers[1].category # Games
  /\ response.detail = <<"Server with id ", "1", " not found.">>

====
